---- MODULE Spec2Model ----
(***************************************************************************)
(* Topology Graph Composer of the Watchtower canvas (TopologyCanvas.tsx):  *)
(* topologyToNodes / topologyToEdges turn a topology snapshot and the set  *)
(* of expanded clusters into the node list and edge list handed to the     *)
(* renderer.  The canvas recomputes both lists on every change of the      *)
(* snapshot or of the expanded set.                                        *)
(*                                                                         *)
(* JavaScript objects are records; an optional property that is not set    *)
(* is a field absent from the record's DOMAIN.  Arrays are sequences and   *)
(* a Map is the sequence of its entries in insertion order.                *)
(***************************************************************************)
EXTENDS Integers, Sequences, FiniteSets, TLC

VARIABLES topology, expandedClusters, nodes, edges, crashed, mounted,
          roundTrip, toggledOdd, dragged, selected, loading, inFlight

\* topology and expandedClusters are the store's, nodes and edges the
\* canvas's useNodesState / useEdgesState; crashed: a render or effect of
\* the canvas threw; mounted: the canvas rendered once.  roundTrip,
\* toggledOdd and dragged are history: the last expansion, the clusters
\* toggled an odd number of times, the last drag.
\* selected is the argument of the last selectDevice call, loading that of
\* the last setLoading call; inFlight counts the calls of loadTopology that
\* wait for fetchTopology.
vars == <<topology, expandedClusters, nodes, edges, crashed, mounted,
          roundTrip, toggledOdd, dragged, selected, loading, inFlight>>

(***************************************************************************)
(* Bounds of the explored snapshots.                                       *)
(***************************************************************************)
MaxConns == 2
MaxLinks == 2
MaxDeviceIds == 2

(***************************************************************************)
(* JavaScript values.                                                      *)
(***************************************************************************)
Null == "null"
Undefined == "undefined"
\* the value of topology.devices[id] for an id that is no key of devices
UndefinedObj == [undefined |-> TRUE]
\* null where an object is expected (the store's topology before a load)
NullObj == [null |-> TRUE]
\* an object literal with no property set: {}
EmptyObj == <<>>

\* Boolean(v) for an object or undefined
Boolean(v) == "undefined" \notin DOMAIN v
\* Boolean(s) for a string, null or undefined: they and "" are falsy
Truthy(s) == s \notin {Undefined, Null, ""}
\* obj.field for an optional string property
Get(obj, field) == IF field \in DOMAIN obj THEN obj[field] ELSE Undefined
\* obj.field ?? dflt
Coalesce(obj, field, dflt) == IF field \in DOMAIN obj THEN obj[field] ELSE dflt

(***************************************************************************)
(* Identifiers of the explored snapshots.  Cluster ids ("A", "B"), device  *)
(* ids and external labels are pairwise different strings.  "Z" is a       *)
(* cluster id that names no cluster of any snapshot, "dX" a device id that *)
(* is no key of any device collection.                                     *)
(***************************************************************************)
DeviceIds == {"d1", "d2", "d3"}
ListedIds == {"d1", "d2", "d3", "dX"}
Labels == {"Internet", "SiteB", "Cloud"}

\* Array.prototype.sort() on strings compares UTF-16 code units: the ids
\* that reach a sort, in that order.
SortOrder == <<"A", "B", "Z", "d1", "d2", "d3", "dX">>
Rank(s) == CHOOSE i \in 1..Len(SortOrder) : SortOrder[i] = s

SeqsUpTo(S, n) == UNION {[1..k -> S] : k \in 0..n}

(***************************************************************************)
(* getExpandedDevicePositions                                              *)
(***************************************************************************)
spacing == 160

\* the row starting at the cluster's own x
positionsFromClusterX(cluster, deviceCount) ==
  [i \in 1..deviceCount |->
     [x |-> cluster.position.x + (i - 1) * spacing, y |-> cluster.position.y]]

getExpandedDevicePositions(cluster, deviceCount) ==
  LET startX == cluster.position.x - ((deviceCount - 1) * spacing) \div 2
  IN [i \in 1..deviceCount |->
        [x |-> startX + (i - 1) * spacing, y |-> cluster.position.y]]

(***************************************************************************)
(* topologyToNodes: cluster loop                                           *)
(***************************************************************************)
\* topology.devices[id]
deviceLookup(topo, id) ==
  IF id \in DOMAIN topo.devices THEN topo.devices[id] ELSE UndefinedObj

\* the mapped array left unfiltered
unfiltered(arr) == arr

\* .filter(Boolean)
filterBoolean(arr) == SelectSeq(arr, Boolean)

\* cluster.device_ids.map((id) => topology.devices[id]).filter(Boolean)
clusterDevices(topo, cluster) ==
  filterBoolean([i \in 1..Len(cluster.device_ids) |->
                   deviceLookup(topo, cluster.device_ids[i])])

\* the device nodes pushed for an expanded cluster
deviceNodes(topo, cluster) ==
  LET devs == clusterDevices(topo, cluster)
      positions == getExpandedDevicePositions(cluster, Len(devs))
  IN [i \in 1..Len(devs) |->
        [id |-> Get(devs[i], "id"),
         type |-> "device",
         position |-> positions[i],
         data |-> [device |-> devs[i], clusterId |-> cluster.id]]]

\* the cluster node pushed for a collapsed cluster
clusterNode(topo, cluster) ==
  [id |-> cluster.id,
   type |-> "cluster",
   position |-> [x |-> cluster.position.x, y |-> cluster.position.y],
   data |-> [cluster |-> cluster, devices |-> clusterDevices(topo, cluster)]]

\* device.id on an undefined device raises a TypeError
clusterThrows(topo, expanded, cluster) ==
  /\ cluster.id \in expanded
  /\ \E i \in 1..Len(clusterDevices(topo, cluster)) :
        ~Boolean(clusterDevices(topo, cluster)[i])

\* the cluster node kept in front of the device nodes of an expanded cluster
clusterEmitsBoth(topo, expanded, cluster) ==
  <<clusterNode(topo, cluster)>>
    \o (IF cluster.id \in expanded THEN deviceNodes(topo, cluster) ELSE <<>>)

\* the body of topology.clusters.forEach: device nodes for an expanded
\* cluster, else the one cluster node
clusterEmits(topo, expanded, cluster) ==
  IF cluster.id \in expanded
  THEN deviceNodes(topo, cluster)
  ELSE <<clusterNode(topo, cluster)>>

RECURSIVE clusterLoop(_, _, _)
clusterLoop(topo, expanded, i) ==
  IF i > Len(topo.clusters) THEN <<>>
  ELSE clusterEmits(topo, expanded, topo.clusters[i])
         \o clusterLoop(topo, expanded, i + 1)

(***************************************************************************)
(* topologyToNodes: external endpoints                                     *)
(***************************************************************************)
externalX == 50
externalBaseY == 100
externalStepY == 120

\* Map.prototype.has
mapHas(m, key) == \E i \in 1..Len(m) : m[i].key = key

\* Map.prototype.set: a new key is appended, a present key keeps its place
mapSet(m, key, value) ==
  IF mapHas(m, key)
  THEN [i \in 1..Len(m) |-> IF m[i].key = key THEN [key |-> key, value |-> value]
                                              ELSE m[i]]
  ELSE Append(m, [key |-> key, value |-> value])

\* registration keyed by the link instead of by the label
targetKeyByLink(link) == link.id

\* the key under which a link's target endpoint is registered
targetKey(link) == link.target.label

\* the target label registered again by every link that names it
registerTargetAlways(m, link, index) ==
  mapSet(m, targetKey(link),
         [label |-> link.target.label,
          type |-> link.target.type,
          icon |-> link.target.icon,
          x |-> externalX,
          y |-> externalBaseY + index * externalStepY])

\* first statement of the callback: register the target label
registerTarget(m, link, index) ==
  IF ~mapHas(m, targetKey(link))
  THEN mapSet(m, targetKey(link),
              [label |-> link.target.label,
               type |-> link.target.type,
               icon |-> link.target.icon,
               x |-> externalX,
               y |-> externalBaseY + index * externalStepY])
  ELSE m

\* second statement of the callback: register the source label
registerSource(m, link, index) ==
  IF Truthy(Get(link.source, "label")) /\ ~mapHas(m, link.source.label)
  THEN mapSet(m, link.source.label,
              [label |-> link.source.label,
               type |-> "campus",
               icon |-> "building",
               x |-> externalX,
               y |-> externalBaseY + (index + 1) * externalStepY])
  ELSE m

\* topology.external_links.forEach((link, index) => ...), index from 0
RECURSIVE externalEndpoints(_, _, _)
externalEndpoints(links, i, m) ==
  IF i > Len(links) THEN m
  ELSE externalEndpoints(links, i + 1,
         registerSource(registerTarget(m, links[i], i - 1), links[i], i - 1))

\* `external-${label}`
externalId(label) == "external-" \o label

externalNodes(topo) ==
  LET m == externalEndpoints(topo.external_links, 1, <<>>)
  IN [i \in 1..Len(m) |->
        [id |-> externalId(m[i].key),
         type |-> "external",
         position |-> [x |-> m[i].value.x, y |-> m[i].value.y],
         data |-> [label |-> m[i].value.label,
                   type |-> m[i].value.type,
                   icon |-> m[i].value.icon]]]

\* the result of a call: the returned list, or a thrown TypeError
topologyToNodes(topo, expanded) ==
  [threw |-> \E i \in 1..Len(topo.clusters) :
                clusterThrows(topo, expanded, topo.clusters[i]),
   value |-> clusterLoop(topo, expanded, 1) \o externalNodes(topo)]

(***************************************************************************)
(* topologyToEdges: connections                                            *)
(***************************************************************************)
\* topology.devices[device]?.cluster_id
clusterIdOf(topo, device) ==
  IF device \in DOMAIN topo.devices
  THEN Get(topo.devices[device], "cluster_id")
  ELSE Undefined

\* the two branches exchanged
actualEndInverted(expanded, device, cluster) ==
  IF cluster \in expanded THEN cluster ELSE device

\* the rendered node id of one endpoint: the device when its cluster is
\* expanded, the cluster otherwise (the four branches of the if-chain)
actualEnd(expanded, device, cluster) ==
  IF cluster \in expanded THEN device ELSE cluster

\* the pair left in the order of the connection
unsortedPair(a, b) == <<a, b>>

\* [actualSource, actualTarget].sort()
sortPair(a, b) == IF Rank(a) <= Rank(b) THEN <<a, b>> ELSE <<b, a>>

\* [actualSource, actualTarget].sort().join('--')
edgeKey(a, b) == sortPair(a, b)[1] \o "--" \o sortPair(a, b)[2]

\* a set that reports no key as present
addedEdgesHasNone(acc, key) == FALSE

\* addedEdges.has(edgeKey)
addedEdgesHas(acc, key) == key \in acc.addedEdges

\* the callback of topology.connections.forEach: acc is the pair of the
\* locals edges and addedEdges
connectionStep(topo, expanded, conn, acc) ==
  LET sourceDevice == Get(conn.source, "device")
      targetDevice == Get(conn.target, "device")
      sourceCluster == clusterIdOf(topo, sourceDevice)
      targetCluster == clusterIdOf(topo, targetDevice)
      actualSource == actualEnd(expanded, sourceDevice, sourceCluster)
      actualTarget == actualEnd(expanded, targetDevice, targetCluster)
      key == edgeKey(actualSource, actualTarget)
  IN IF ~(Truthy(sourceDevice) /\ Truthy(targetDevice)) THEN acc
     ELSE IF ~Truthy(sourceCluster) \/ ~Truthy(targetCluster) THEN acc
     ELSE IF actualSource = actualTarget THEN acc
     ELSE IF addedEdgesHas(acc, key) THEN acc
     ELSE [addedEdges |-> acc.addedEdges \cup {key},
           edges |-> Append(acc.edges,
                       [id |-> "edge-" \o key,
                        source |-> actualSource,
                        target |-> actualTarget,
                        type |-> "traffic",
                        data |-> [utilization |-> Coalesce(conn, "utilization", 0),
                                  status |-> Coalesce(conn, "status", "up")]])]

\* the connections visited from the last to the first
RECURSIVE connectionLoopBackwards(_, _, _, _)
connectionLoopBackwards(topo, expanded, i, acc) ==
  IF i > Len(topo.connections) THEN acc
  ELSE connectionStep(topo, expanded, topo.connections[i],
                      connectionLoopBackwards(topo, expanded, i + 1, acc))

\* topology.connections.forEach, in the order of the list
RECURSIVE connectionLoop(_, _, _, _)
connectionLoop(topo, expanded, i, acc) ==
  IF i > Len(topo.connections) THEN acc
  ELSE connectionLoop(topo, expanded, i + 1,
                      connectionStep(topo, expanded, topo.connections[i], acc))

(***************************************************************************)
(* topologyToEdges: external links                                         *)
(***************************************************************************)
\* sourceId without the label branch
linkSourceIdDeviceOnly(topo, expanded, link) ==
  LET sourceDeviceId == Get(link.source, "device")
      sourceCluster == IF Truthy(sourceDeviceId)
                       THEN clusterIdOf(topo, sourceDeviceId)
                       ELSE Null
  IN IF Truthy(sourceDeviceId) /\ Truthy(sourceCluster)
     THEN (IF sourceCluster \in expanded THEN sourceDeviceId ELSE sourceCluster)
     ELSE Null

\* sourceId that yields nothing for a device of an expanded cluster
linkSourceIdCollapsedOnly(topo, expanded, link) ==
  LET sourceDeviceId == Get(link.source, "device")
      sourceCluster == IF Truthy(sourceDeviceId)
                       THEN clusterIdOf(topo, sourceDeviceId)
                       ELSE Null
  IN IF Truthy(sourceDeviceId) /\ Truthy(sourceCluster)
     THEN (IF sourceCluster \in expanded THEN Null ELSE sourceCluster)
     ELSE IF Truthy(Get(link.source, "label"))
     THEN externalId(link.source.label)
     ELSE Null

\* sourceId with the label looked at before the device
linkSourceIdLabelFirst(topo, expanded, link) ==
  LET sourceDeviceId == Get(link.source, "device")
      sourceCluster == IF Truthy(sourceDeviceId)
                       THEN clusterIdOf(topo, sourceDeviceId)
                       ELSE Null
  IN IF Truthy(Get(link.source, "label"))
     THEN externalId(link.source.label)
     ELSE IF Truthy(sourceDeviceId) /\ Truthy(sourceCluster)
     THEN (IF sourceCluster \in expanded THEN sourceDeviceId ELSE sourceCluster)
     ELSE Null

\* sourceId of an external link; Null when the source names neither a
\* device with a cluster_id nor a label
linkSourceId(topo, expanded, link) ==
  LET sourceDeviceId == Get(link.source, "device")
      sourceCluster == IF Truthy(sourceDeviceId)
                       THEN clusterIdOf(topo, sourceDeviceId)
                       ELSE Null
  IN IF Truthy(sourceDeviceId) /\ Truthy(sourceCluster)
     THEN (IF sourceCluster \in expanded THEN sourceDeviceId ELSE sourceCluster)
     ELSE IF Truthy(Get(link.source, "label"))
     THEN externalId(link.source.label)
     ELSE Null

\* the callback of topology.external_links.forEach
linkStep(topo, expanded, link, edgeList) ==
  LET sourceId == linkSourceId(topo, expanded, link)
      targetId == externalId(link.target.label)
  IN IF sourceId # Null
     THEN Append(edgeList,
            [id |-> "edge-" \o link.id,
             source |-> sourceId,
             target |-> targetId,
             type |-> "traffic",
             data |-> [utilization |-> Coalesce(link, "utilization", 0),
                       status |-> Coalesce(link, "status", "up")]])
     ELSE edgeList

RECURSIVE linkLoop(_, _, _, _)
linkLoop(topo, expanded, i, edgeList) ==
  IF i > Len(topo.external_links) THEN edgeList
  ELSE linkLoop(topo, expanded, i + 1,
                linkStep(topo, expanded, topo.external_links[i], edgeList))

topologyToEdges(topo, expanded) ==
  linkLoop(topo, expanded, 1,
           connectionLoop(topo, expanded, 1,
                          [addedEdges |-> {}, edges |-> <<>>]).edges)

(***************************************************************************)
(* The explored snapshots.  A snapshot is a Topology object: clusters,     *)
(* the keyed device collection, connections and external links.            *)
(***************************************************************************)
Cluster(id, x, y, ids) ==
  [id |-> id, position |-> [x |-> x, y |-> y], device_ids |-> ids]

Device(id, clusterId) == [id |-> id, cluster_id |-> clusterId]

ClusterA(ids) == Cluster("A", 400, 100, ids)
ClusterB(ids) == Cluster("B", 400, 300, ids)

\* clusters A{d1,d2}, B{d3}
BaseClusters == <<ClusterA(<<"d1", "d2">>), ClusterB(<<"d3">>)>>

BaseDevices ==
  [d \in DeviceIds |-> Device(d, IF d = "d3" THEN "B" ELSE "A")]

\* device collections with referential defects: d3 owned by a cluster that
\* is no cluster of the snapshot, d2 absent, d2 owned by B though listed by
\* A, d3 without cluster_id
DeviceMaps ==
  { BaseDevices,
    [BaseDevices EXCEPT !["d3"] = Device("d3", "Z")],
    [d \in {"d1", "d3"} |-> BaseDevices[d]],
    [BaseDevices EXCEPT !["d2"] = Device("d2", "B")],
    [BaseDevices EXCEPT !["d3"] = [id |-> "d3"]] }

ConnIds == <<"c1", "c2", "c3", "c4">>
LinkIds == <<"L1", "L2", "L3", "L4">>

Dev(d) == [device |-> d]

\* endpoint pairs of the explored connections
ConnEnds ==
  { <<Dev("d1"), Dev("d3")>>, <<Dev("d3"), Dev("d1")>>, <<Dev("d2"), Dev("d3")>>,
    <<Dev("d1"), Dev("d2")>>, <<Dev("d1"), Dev("d1")>>, <<Dev("d3"), Dev("d2")>>,
    <<EmptyObj, Dev("d3")>>, <<Dev("d1"), EmptyObj>> }

\* utilization and status of a connection; both are optional
Payloads ==
  { EmptyObj,
    [utilization |-> 10, status |-> "up"],
    [utilization |-> 90, status |-> "down"] }

Connection(id, ends, payload) ==
  [f \in {"id", "source", "target"} \cup DOMAIN payload |->
     CASE f = "id" -> id
       [] f = "source" -> ends[1]
       [] f = "target" -> ends[2]
       [] OTHER -> payload[f]]

\* connection lists with ids c1, c2, ... in list order
ConnLists(ends, payloads, n) ==
  { [i \in 1..Len(s) |-> Connection(ConnIds[i], s[i][1], s[i][2])] :
      s \in SeqsUpTo(ends \X payloads, n) }

Target(label) == [label |-> label, type |-> "cloud", icon |-> "cloud"]

\* sources of the explored external links: a device, a dangling device, a
\* label, a device with a label, and neither
LinkSources ==
  { Dev("d1"), Dev("d3"), Dev("dX"),
    [label |-> "SiteB"], [label |-> "Internet"],
    [device |-> "d1", label |-> "SiteB"],
    EmptyObj }

ExternalLink(id, source, label) ==
  [id |-> id, source |-> source, target |-> Target(label),
   utilization |-> 28, status |-> "up"]

LinkLists(n) ==
  { [i \in 1..Len(s) |-> ExternalLink(LinkIds[i], s[i][1], s[i][2])] :
      s \in SeqsUpTo(LinkSources \X {"Internet", "SiteB"}, n) }

\* two links whose labels stack: a label or a device as source, the
\* Internet or the Cloud as target
StackLists ==
  { <<ExternalLink("L1", a[1], a[2]), ExternalLink("L2", b[1], b[2])>> :
      a, b \in {[label |-> "SiteB"], Dev("d1")} \X {"Internet", "Cloud"} }

\* one connection d1 - d3 and one uplink from d1 to the Internet
BaseConnections ==
  <<Connection("c1", <<Dev("d1"), Dev("d3")>>, [utilization |-> 10, status |-> "up"])>>

BaseLinks == <<ExternalLink("L1", Dev("d1"), "Internet")>>

Topology(clusters, devices, connections, links) ==
  [clusters |-> clusters, devices |-> devices,
   connections |-> connections, external_links |-> links]

\* Scenario A: clusters A{d1,d2}, B{d3}, one connection d1 - d3
ScenarioA == Topology(BaseClusters, BaseDevices, BaseConnections, <<>>)

\* the snapshots that vary the connections and the device collection
ConnectionSnapshots ==
  { Topology(BaseClusters, devs, conns, BaseLinks) :
      devs \in DeviceMaps, conns \in ConnLists(ConnEnds, {EmptyObj}, MaxConns) }

\* the snapshots that vary utilization and status of parallel connections
PayloadSnapshots ==
  { Topology(BaseClusters, BaseDevices, conns, <<>>) :
      conns \in ConnLists({<<Dev("d1"), Dev("d3")>>, <<Dev("d3"), Dev("d1")>>,
                           <<Dev("d2"), Dev("d3")>>}, Payloads, MaxConns) }

\* the snapshots that vary the clusters' device_ids: A lists any ids, also
\* an id twice or an id that is no device; B lists nothing, d3, or A's d1
ClusterSnapshots ==
  { Topology(<<ClusterA(a), ClusterB(b)>>, BaseDevices, BaseConnections, BaseLinks) :
      a \in SeqsUpTo(ListedIds, MaxDeviceIds), b \in {<<>>, <<"d3">>, <<"d1">>} }

\* the snapshots that vary the external links
LinkSnapshots ==
  { Topology(BaseClusters, BaseDevices, BaseConnections, links) :
      links \in LinkLists(MaxLinks) }

\* the snapshots with three labels
StackSnapshots ==
  { Topology(BaseClusters, BaseDevices, BaseConnections, links) :
      links \in StackLists }

\* a link whose id reads like the key of a pair of rendered endpoints
KeyNamedLink ==
  Topology(BaseClusters, BaseDevices, BaseConnections,
           <<ExternalLink("A--B", Dev("d1"), "Internet")>>)

\* snapshots with fewer clusters: B gone while d3 still names it, and the
\* empty snapshot
OnlyA ==
  Topology(<<ClusterA(<<"d1", "d2">>)>>, BaseDevices, BaseConnections,
           <<ExternalLink("L1", Dev("d1"), "Internet"),
             ExternalLink("L2", Dev("d3"), "Internet")>>)
EmptyTopology == Topology(<<>>, <<>>, <<>>, <<>>)

Snapshots ==
  ConnectionSnapshots \cup PayloadSnapshots \cup ClusterSnapshots
    \cup LinkSnapshots \cup StackSnapshots
    \cup {ScenarioA, OnlyA, EmptyTopology, KeyNamedLink}

\* what a later poll returns
RefreshSnapshots == {ScenarioA, OnlyA, EmptyTopology}

\* what fetchTopology can resolve to: any snapshot on the first load, one
\* of the refresh snapshots afterwards
Fetched(current) == IF current = NullObj THEN Snapshots ELSE RefreshSnapshots

(***************************************************************************)
(* The store (nocStore) and the canvas.                                    *)
(***************************************************************************)
\* toggleClusterExpanded: flips the membership of id
toggleClusterExpanded(expanded, id) ==
  IF id \in expanded THEN expanded \ {id} ELSE expanded \cup {id}

\* setNodes that patches the rendered list instead of replacing it
setNodesPatching(current, next) == current \o next

\* setNodes / setEdges of useNodesState / useEdgesState: the list is replaced
setNodes(current, next) == next
setEdges(current, next) == next

NoRoundTrip == [cluster |-> Null, nodes |-> <<>>, edges |-> <<>>, returned |-> FALSE]
NoDrag == [id |-> Null, position |-> [x |-> 0, y |-> 0]]

\* the effect run without looking at topology
effectUnguarded(topo) == TRUE

\* if (topology) of the effect; topology ? ... : [] of the two useMemo
effectGuard(topo) == topo # NullObj

\* the effect that follows a change of topology or expandedClusters (and
\* the first render): a null topology reaching the composer raises a
\* TypeError at topology.clusters
Recompute(topo, expanded) ==
  IF ~effectGuard(topo)
  THEN UNCHANGED <<nodes, edges, crashed>>
  ELSE IF topo = NullObj \/ topologyToNodes(topo, expanded).threw
  THEN /\ crashed' = TRUE
       /\ UNCHANGED <<nodes, edges>>
  ELSE /\ nodes' = setNodes(nodes, topologyToNodes(topo, expanded).value)
       /\ edges' = setEdges(edges, topologyToEdges(topo, expanded))
       /\ UNCHANGED crashed

\* what the canvas returns: nothing while topology is null, else the flow
\* over the two state lists
render(topo, ns, es) ==
  IF topo = NullObj THEN NullObj ELSE [nodes |-> ns, edges |-> es]

\* the store as created, the canvas not yet rendered
Init ==
  /\ topology = NullObj
  /\ expandedClusters = {}
  /\ nodes = <<>>
  /\ edges = <<>>
  /\ crashed = FALSE
  /\ mounted = FALSE
  /\ roundTrip = NoRoundTrip
  /\ toggledOdd = {}
  /\ dragged = NoDrag
  /\ selected = Null
  /\ loading = FALSE
  /\ inFlight = 0

\* first render of the canvas, before App.loadTopology has resolved
mount ==
  /\ ~mounted
  /\ mounted' = TRUE
  /\ UNCHANGED <<topology, expandedClusters, roundTrip, toggledOdd, dragged,
                 selected, loading, inFlight>>
  /\ Recompute(topology, expandedClusters)

\* expandedClusters with the clusters of the new snapshot only
expandedPruned(expanded, t) ==
  expanded \cap {t.clusters[i].id : i \in 1..Len(t.clusters)}

\* the store's setTopology leaves expandedClusters as it is
expandedAfterSetTopology(expanded, t) == expanded

\* setTopology(topology) of App.loadTopology and the render that follows:
\* the snapshot replaces the stored one
applyTopology(t) ==
  /\ mounted
  /\ ~crashed
  /\ topology' = t
  /\ expandedClusters' = expandedAfterSetTopology(expandedClusters, t)
  /\ roundTrip' = NoRoundTrip
  /\ UNCHANGED <<mounted, toggledOdd, dragged, selected>>
  /\ Recompute(t, expandedClusters')

\* App.loadTopology from its call to its end with no other event in
\* between (fetchTopology of the demo resolves at once): setLoading(true),
\* setTopology(t), setLoading(false)
setTopology(t) ==
  /\ inFlight = 0
  /\ applyTopology(t)
  /\ loading' = FALSE
  /\ UNCHANGED inFlight

\* the loads that may wait for fetchTopology at the same time
MaxInFlight == 2

\* App.loadTopology up to its await, called by the effect or by the timer
loadTopologyBegin ==
  /\ mounted
  /\ ~crashed
  /\ inFlight < MaxInFlight
  /\ loading' = TRUE
  /\ inFlight' = inFlight + 1
  /\ UNCHANGED <<topology, expandedClusters, nodes, edges, crashed, mounted,
                 roundTrip, toggledOdd, dragged, selected>>

\* fetchTopology of a waiting load resolves to t: setTopology(t), then the
\* finally block
loadTopologyResolve(t) ==
  /\ inFlight > 0
  /\ applyTopology(t)
  /\ loading' = FALSE
  /\ inFlight' = inFlight - 1

\* fetchTopology of a waiting load rejects: setError, then the finally
\* block
loadTopologyReject ==
  /\ inFlight > 0
  /\ ~crashed
  /\ loading' = FALSE
  /\ inFlight' = inFlight - 1
  /\ UNCHANGED <<topology, expandedClusters, nodes, edges, crashed, mounted,
                 roundTrip, toggledOdd, dragged, selected>>

\* every cluster or device node toggles its own id
doubleClickOwnId(node) ==
  IF node.type \in {"cluster", "device"} THEN node.id ELSE Null

\* the cluster a double click on node toggles, Null when it toggles none
doubleClickTarget(node) ==
  IF node.type = "cluster" THEN node.id
  ELSE IF node.type = "device" /\ Truthy(Get(node.data, "clusterId"))
  THEN node.data.clusterId
  ELSE Null

\* the cluster a node stands for: the cluster of a cluster node, the
\* cluster that emitted a device node, none for an external node
ClusterOfNode(node) ==
  IF node.type = "cluster" THEN {node.id}
  ELSE IF node.type = "device" THEN {node.data.clusterId}
  ELSE {}

\* double click on the i-th rendered node
onNodeDoubleClick(i) ==
  /\ mounted
  /\ ~crashed
  /\ topology # NullObj
  /\ i \in 1..Len(nodes)
  /\ LET c == doubleClickTarget(nodes[i])
     IN IF c = Null
        THEN UNCHANGED vars
        ELSE /\ expandedClusters' = toggleClusterExpanded(expandedClusters, c)
             /\ toggledOdd' = (toggledOdd \cup ClusterOfNode(nodes[i]))
                                \ (toggledOdd \cap ClusterOfNode(nodes[i]))
             /\ UNCHANGED <<topology, mounted, dragged, selected, loading,
                            inFlight>>
             /\ roundTrip' =
                  IF c \notin expandedClusters
                  THEN [cluster |-> c, nodes |-> nodes, edges |-> edges,
                        returned |-> FALSE]
                  ELSE IF roundTrip.cluster = c /\ ~roundTrip.returned
                  THEN [roundTrip EXCEPT !.returned = TRUE]
                  ELSE NoRoundTrip
             /\ Recompute(topology, expandedClusters')

\* where a drag drops a node
DragPositions == {[x |-> 10, y |-> 20]}

\* applyNodeChanges of useNodesState for a position change
dragNode(list, i, p) == [list EXCEPT ![i].position = p]

\* onNodesChange: the user drags the i-th rendered node to p (one drag is
\* followed per session)
onNodesChange(i, p) ==
  /\ mounted
  /\ ~crashed
  /\ topology # NullObj
  /\ dragged = NoDrag
  /\ i \in 1..Len(nodes)
  /\ nodes[i].position # p
  /\ nodes' = dragNode(nodes, i, p)
  /\ dragged' = [id |-> nodes[i].id, position |-> p]
  /\ UNCHANGED <<topology, expandedClusters, edges, crashed, mounted,
                 roundTrip, toggledOdd, selected, loading, inFlight>>

\* every node passed to selectDevice
clickAnyNode(node) == node.id

\* the id a click passes to selectDevice, Null when it selects nothing
clickTarget(node) == IF node.type = "device" THEN node.id ELSE Null

\* click on the i-th rendered node
onNodeClick(i) ==
  /\ mounted
  /\ ~crashed
  /\ topology # NullObj
  /\ i \in 1..Len(nodes)
  /\ selected' = IF clickTarget(nodes[i]) # Null
                 THEN clickTarget(nodes[i]) ELSE selected
  /\ UNCHANGED <<topology, expandedClusters, nodes, edges, crashed, mounted,
                 roundTrip, toggledOdd, dragged, loading, inFlight>>

Next ==
  \/ mount
  \/ \E t \in Fetched(topology) : setTopology(t)
  \/ \E i \in 1..Len(nodes) : onNodeDoubleClick(i)

\* the composer over all explored snapshots
Spec == Init /\ [][Next]_vars

\* the canvas with its drag handler, over the refresh snapshots and the
\* base snapshot
CanvasSnapshots ==
  RefreshSnapshots
    \cup {Topology(BaseClusters, BaseDevices, BaseConnections, BaseLinks)}

NextCanvas ==
  \/ mount
  \/ \E t \in CanvasSnapshots : setTopology(t)
  \/ \E i \in 1..Len(nodes) : onNodeDoubleClick(i)
  \/ \E i \in 1..Len(nodes), p \in DragPositions : onNodesChange(i, p)
  \/ \E i \in 1..Len(nodes) : onNodeClick(i)

SpecCanvas == Init /\ [][NextCanvas]_vars

\* the loads of App, which may overlap, next to the double clicks
NextLoad ==
  \/ mount
  \/ loadTopologyBegin
  \/ \E t \in CanvasSnapshots : loadTopologyResolve(t)
  \/ loadTopologyReject
  \/ \E i \in 1..Len(nodes) : onNodeDoubleClick(i)

SpecLoad == Init /\ [][NextLoad]_vars

(***************************************************************************)
(* Vocabulary of the properties, stated on the snapshot and on the lists   *)
(* handed to the renderer.                                                 *)
(***************************************************************************)
Loaded == topology # NullObj

\* ids of the clusters of the snapshot
PresentClusters == {topology.clusters[i].id : i \in 1..Len(topology.clusters)}

\* ids of external nodes
ExternalIds == {"external-" \o l : l \in Labels}

\* positions of the edges derived from connections and from external links:
\* an external link's edge, and no other, targets an external node
ConnectionEdges == {i \in 1..Len(edges) : edges[i].target \notin ExternalIds}
LinkEdges == {i \in 1..Len(edges) : edges[i].target \in ExternalIds}

\* the endpoint carries a device that is in the device collection and has
\* a cluster_id
HasOwner(end) ==
  /\ "device" \in DOMAIN end
  /\ end.device \in DOMAIN topology.devices
  /\ "cluster_id" \in DOMAIN topology.devices[end.device]

Owner(end) == topology.devices[end.device].cluster_id

\* device-resolvable: both endpoints carry a device that exists and whose
\* owning cluster exists
Resolvable(conn) ==
  /\ HasOwner(conn.source) /\ Owner(conn.source) \in PresentClusters
  /\ HasOwner(conn.target) /\ Owner(conn.target) \in PresentClusters

\* the resolution table: the device when its cluster is expanded, else the
\* cluster
Rendered(end) ==
  IF Owner(end) \in expandedClusters THEN end.device ELSE Owner(end)

RenderedPair(conn) == {Rendered(conn.source), Rendered(conn.target)}

EdgeEnds(i) == {edges[i].source, edges[i].target}

\* C2: with an unchanged topology, expanding a collapsed cluster and then
\* collapsing it again yields exactly the node list and the edge list
\* that were rendered before the expansion.
RoundTripRestores ==
  roundTrip.returned => nodes = roundTrip.nodes /\ edges = roundTrip.edges

\* a cluster was expanded and collapsed again, with nodes and edges rendered
RoundTripWitness ==
  /\ roundTrip.returned
  /\ roundTrip.cluster \notin expandedClusters
  /\ Len(nodes) > 1
  /\ Len(edges) > 0

\* C3: no edge of the composed edge list has source equal to target,
\* whether it is derived from a connection or from an external link.
NoSelfLoops ==
  \A i \in 1..Len(edges) : edges[i].source # edges[i].target

\* C4: no two nodes of the node list have the same id.
UniqueNodeIds ==
  \A i, j \in 1..Len(nodes) : i # j => nodes[i].id # nodes[j].id

\* C5: N >= 1 device-resolvable connections between two distinct clusters
\* that are both collapsed compose to exactly one edge between the two
\* clusters, whatever N and the direction of each connection.
AggregateOneEdge ==
  Loaded =>
    \A a, b \in PresentClusters :
      ( /\ a # b
        /\ a \notin expandedClusters
        /\ b \notin expandedClusters
        /\ \E k \in 1..Len(topology.connections) :
              /\ Resolvable(topology.connections[k])
              /\ {Owner(topology.connections[k].source),
                  Owner(topology.connections[k].target)} = {a, b} )
      => Cardinality({i \in 1..Len(edges) : EdgeEnds(i) = {a, b}}) = 1

\* two connections of opposite direction between the collapsed clusters A
\* and B, and the edge between A and B
AggregateWitness ==
  /\ Loaded
  /\ expandedClusters = {}
  /\ \E k, l \in 1..Len(topology.connections) :
        /\ k # l
        /\ Resolvable(topology.connections[k])
        /\ Resolvable(topology.connections[l])
        /\ Owner(topology.connections[k].source) = "A"
        /\ Owner(topology.connections[k].target) = "B"
        /\ Owner(topology.connections[l].source) = "B"
        /\ Owner(topology.connections[l].target) = "A"
  /\ \E i \in 1..Len(edges) : EdgeEnds(i) = {"A", "B"}

\* the labels the external links reference, as target or as source
ReferencedLabels ==
  {topology.external_links[k].target.label : k \in 1..Len(topology.external_links)}
    \cup {topology.external_links[k].source.label :
            k \in {j \in 1..Len(topology.external_links) :
                     "label" \in DOMAIN topology.external_links[j].source}}

\* C6: the node list holds exactly one external node "external-"+L for
\* each distinct label L the external links reference, however many links
\* reference L, and no external node for any other label.
ExternalNodePerLabel ==
  Loaded =>
    /\ \A l \in Labels :
         Cardinality({i \in 1..Len(nodes) : nodes[i].id = "external-" \o l})
           = IF l \in ReferencedLabels THEN 1 ELSE 0
    /\ Cardinality({i \in 1..Len(nodes) : nodes[i].type = "external"})
           = Cardinality(ReferencedLabels)

\* two links reference the same label, one of them as its source
ExternalNodeWitness ==
  /\ Loaded
  /\ \E k, l \in 1..Len(topology.external_links) :
        /\ k # l
        /\ "label" \in DOMAIN topology.external_links[k].source
        /\ topology.external_links[k].source.label
             = topology.external_links[l].target.label
  /\ \E i \in 1..Len(nodes) : nodes[i].type = "external"

\* the source of an external link yields a rendered id: it names a device
\* that has a cluster_id, or else it carries a label
SourceResolves(link) == HasOwner(link.source) \/ "label" \in DOMAIN link.source

ResolvingLinks ==
  {k \in 1..Len(topology.external_links) :
     SourceResolves(topology.external_links[k])}

\* the edges a link yields: the external-link edges with the link's id
EdgesOfLink(link) == {i \in LinkEdges : edges[i].id = "edge-" \o link.id}

FirstOfPair(k) ==
  \A j \in 1..(k - 1) :
    LET other == topology.connections[j]
    IN ~(HasOwner(other.source) /\ HasOwner(other.target)
         /\ RenderedPair(other) = RenderedPair(topology.connections[k]))

\* C8: a device-resolvable connection is rendered from the source device's
\* id when the source device's cluster is expanded and from that cluster's
\* id otherwise, and likewise to the target; every connection-derived edge
\* joins the rendered ends of a connection.  In Scenario A this is exactly
\* one edge per view: A-B, d1-B, A-d3, d1-d3.
RenderedEndpoints ==
  Loaded =>
    /\ \A k \in 1..Len(topology.connections) :
         LET conn == topology.connections[k]
         IN (Resolvable(conn) /\ Rendered(conn.source) # Rendered(conn.target))
            => \E i \in ConnectionEdges :
                 /\ EdgeEnds(i) = RenderedPair(conn)
                 /\ FirstOfPair(k) =>
                      /\ edges[i].source = Rendered(conn.source)
                      /\ edges[i].target = Rendered(conn.target)
    /\ \A i \in ConnectionEdges :
         \E k \in 1..Len(topology.connections) :
           LET conn == topology.connections[k]
           IN /\ HasOwner(conn.source) /\ HasOwner(conn.target)
              /\ edges[i].source = Rendered(conn.source)
              /\ edges[i].target = Rendered(conn.target)
    /\ topology = ScenarioA =>
         /\ Len(edges) = 1
         /\ edges[1].source = (IF "A" \in expandedClusters THEN "d1" ELSE "A")
         /\ edges[1].target = (IF "B" \in expandedClusters THEN "d3" ELSE "B")

\* Scenario A with only A expanded: the one edge is d1 - B
ScenarioAWitness ==
  /\ topology = ScenarioA
  /\ expandedClusters = {"A"}
  /\ Len(edges) = 1
  /\ edges[1].source = "d1"
  /\ edges[1].target = "B"
  /\ \E i \in 1..Len(nodes) : nodes[i].id = "d2"

\* the listed ids of a cluster that are keys of the device collection, in
\* declared order, and those that are not
ResolvedIds(cluster) ==
  LET Exists(id) == id \in DOMAIN topology.devices
  IN SelectSeq(cluster.device_ids, Exists)

DanglingIds(cluster) ==
  {cluster.device_ids[i] : i \in 1..Len(cluster.device_ids)} \ DOMAIN topology.devices

IdsOf(list) ==
  [i \in 1..Len(list) |-> IF "id" \in DOMAIN list[i] THEN list[i].id ELSE Undefined]

\* the nodes emitted for a cluster, in list order
NodesOfCluster(cluster) ==
  LET Emitted(n) ==
        \/ n.type = "cluster" /\ n.id = cluster.id
        \/ n.type = "device" /\ n.data.clusterId = cluster.id
  IN SelectSeq(nodes, Emitted)

\* C9: when a cluster lists a device id that is absent from the device
\* collection, composition completes without error, no node has that id,
\* and the cluster's resolved devices are emitted in declared order (as
\* device nodes when expanded, as the cluster node's device list when
\* collapsed).
DanglingTolerated ==
  Loaded =>
    \A c \in 1..Len(topology.clusters) :
      LET cluster == topology.clusters[c]
      IN DanglingIds(cluster) # {} =>
           /\ ~crashed
           /\ \A i \in 1..Len(nodes) : nodes[i].id \notin DanglingIds(cluster)
           /\ cluster.id \in expandedClusters =>
                IdsOf(NodesOfCluster(cluster)) = ResolvedIds(cluster)
           /\ cluster.id \notin expandedClusters =>
                /\ Len(NodesOfCluster(cluster)) = 1
                /\ IdsOf(NodesOfCluster(cluster)[1].data.devices)
                     = ResolvedIds(cluster)

\* an expanded cluster that lists a dangling id before a resolved one
DanglingWitness ==
  /\ Loaded
  /\ ~crashed
  /\ \E c \in 1..Len(topology.clusters) :
       LET cluster == topology.clusters[c]
       IN /\ cluster.id \in expandedClusters
          /\ Len(cluster.device_ids) >= 2
          /\ cluster.device_ids[1] \in DanglingIds(cluster)
          /\ Len(ResolvedIds(cluster)) >= 1
          /\ \E i \in 1..Len(nodes) : nodes[i].type = "device"

\* C10: a connection produces no edge and raises no error whenever one of
\* its endpoints carries no device, names a device absent from the device
\* collection, or names a device whose cluster_id is not the id of a
\* cluster of the snapshot: every connection-derived edge joins the
\* rendered ends of a device-resolvable connection.
UnresolvedConnectionsSkipped ==
  Loaded =>
    /\ ~crashed
    /\ \A i \in ConnectionEdges :
         \E k \in 1..Len(topology.connections) :
           /\ Resolvable(topology.connections[k])
           /\ EdgeEnds(i) = RenderedPair(topology.connections[k])

ExpandedIsToggledOdd == expandedClusters = toggledOdd

\* A was toggled twice and B once
ToggledTwiceWitness ==
  /\ roundTrip.cluster = "A"
  /\ roundTrip.returned
  /\ toggledOdd = {"B"}
  /\ expandedClusters = {"B"}

\* C13: replacing the snapshot leaves the expanded set as it was, also
\* for clusters absent from the new snapshot, and the expanded set changes
\* only by a toggle.
ExpandedSurvivesRefresh ==
  [][/\ topology' # topology => expandedClusters' = expandedClusters
     /\ expandedClusters' # expandedClusters => toggledOdd' # toggledOdd]_vars

\* B is expanded and the current snapshot has no cluster B
ExpandedAbsentClusterWitness ==
  /\ Loaded
  /\ "B" \in expandedClusters
  /\ "B" \notin PresentClusters
  /\ "A" \in PresentClusters

\* C15: while no snapshot has arrived the composer is not run: the canvas
\* holds empty node and edge lists, renders nothing and raises no error.
EmptyBeforeFirstSnapshot ==
  ~Loaded =>
    /\ nodes = <<>>
    /\ edges = <<>>
    /\ ~crashed
    /\ render(topology, nodes, edges) = NullObj

\* the canvas has rendered and no snapshot has arrived
MountedUnloadedWitness == mounted /\ ~Loaded

\* C16: a node the user dragged is still at the position the user gave it
\* after a later toggle or refresh.
DraggedPositionPersists ==
  dragged # NoDrag =>
    \A i \in 1..Len(nodes) :
      nodes[i].id = dragged.id => nodes[i].position = dragged.position

\* C17: no two connection-derived edges join the same unordered pair of
\* rendered endpoints, also when the connections behind them run in
\* opposite directions.
OneEdgePerRenderedPair ==
  \A i, j \in ConnectionEdges : EdgeEnds(i) = EdgeEnds(j) => i = j

\* two connections that run in opposite directions between the same two
\* rendered endpoints, and one edge for them
OppositeDirectionsWitness ==
  /\ Loaded
  /\ \E k1, k2 \in 1..Len(topology.connections) :
       LET c1 == topology.connections[k1]
           c2 == topology.connections[k2]
       IN /\ k1 < k2
          /\ Resolvable(c1) /\ Resolvable(c2)
          /\ Rendered(c1.source) = Rendered(c2.target)
          /\ Rendered(c1.target) = Rendered(c2.source)
          /\ Rendered(c1.source) # Rendered(c1.target)
          /\ \E i \in ConnectionEdges : EdgeEnds(i) = RenderedPair(c1)

\* utilization ?? 0 and status ?? 'up' of a connection
UtilizationOf(conn) ==
  IF "utilization" \in DOMAIN conn THEN conn.utilization ELSE 0

StatusOf(conn) ==
  IF "status" \in DOMAIN conn THEN conn.status ELSE "up"

\* C18: when several connections render to the same unordered pair, the
\* edge carries the direction, the utilization and the status of the first
\* of them in the order of the connection list; a later one changes
\* nothing, also when it is down or more utilized.
FirstConnectionWins ==
  Loaded =>
    \A i \in ConnectionEdges :
      \E k \in 1..Len(topology.connections) :
        LET conn == topology.connections[k]
        IN /\ HasOwner(conn.source) /\ HasOwner(conn.target)
           /\ RenderedPair(conn) = EdgeEnds(i)
           /\ FirstOfPair(k)
           /\ edges[i].source = Rendered(conn.source)
           /\ edges[i].target = Rendered(conn.target)
           /\ edges[i].data.utilization = UtilizationOf(conn)
           /\ edges[i].data.status = StatusOf(conn)

\* a second connection on the pair of the first, in the opposite
\* direction, down and more utilized: the edge shows the first
LaterDownIgnoredWitness ==
  /\ Loaded
  /\ Len(topology.connections) = 2
  /\ Len(edges) >= 1
  /\ LET c1 == topology.connections[1]
         c2 == topology.connections[2]
     IN /\ Resolvable(c1) /\ Resolvable(c2)
        /\ RenderedPair(c1) = RenderedPair(c2)
        /\ Rendered(c1.source) = Rendered(c2.target)
        /\ StatusOf(c1) = "up" /\ StatusOf(c2) = "down"
        /\ UtilizationOf(c1) < UtilizationOf(c2)
        /\ \E i \in ConnectionEdges :
             /\ edges[i].source = Rendered(c1.source)
             /\ edges[i].data.status = "up"
             /\ edges[i].data.utilization = UtilizationOf(c1)

\* the positions in the node list of the cluster nodes with the id of a
\* cluster and of the device nodes emitted for it
ClusterNodesOf(cluster) ==
  {i \in 1..Len(nodes) : nodes[i].type = "cluster" /\ nodes[i].id = cluster.id}

DeviceNodesOf(cluster) ==
  LET EmittedDevice(n) == n.type = "device" /\ n.data.clusterId = cluster.id
  IN SelectSeq(nodes, EmittedDevice)

\* C19: a collapsed cluster has exactly one cluster node and no device
\* node; an expanded cluster has no cluster node and one device node per
\* listed id that resolves, in declared order, none when no id resolves.
ClusterNodeOrDeviceNodes ==
  Loaded =>
    \A c \in 1..Len(topology.clusters) :
      LET cluster == topology.clusters[c]
      IN IF cluster.id \in expandedClusters
         THEN /\ ClusterNodesOf(cluster) = {}
              /\ IdsOf(DeviceNodesOf(cluster)) = ResolvedIds(cluster)
         ELSE /\ Cardinality(ClusterNodesOf(cluster)) = 1
              /\ DeviceNodesOf(cluster) = <<>>

\* an expanded cluster whose listed ids all fail to resolve, next to an
\* expanded cluster with a device node
ExpandedToNothingWitness ==
  /\ Loaded
  /\ \E c, d \in 1..Len(topology.clusters) :
       LET empty == topology.clusters[c]
           full == topology.clusters[d]
       IN /\ empty.id \in expandedClusters
          /\ Len(empty.device_ids) >= 1
          /\ ResolvedIds(empty) = <<>>
          /\ DeviceNodesOf(empty) = <<>>
          /\ full.id \in expandedClusters
          /\ Len(DeviceNodesOf(full)) >= 1

\* C20: the i-th (from 0) of the N device nodes of an expanded cluster is
\* at x = cluster.x - (N-1)*160/2 + i*160 and y = cluster.y, N counting
\* the resolved devices only; adjacent device nodes are 160 apart and the
\* row is symmetric about cluster.x.
CentredRow ==
  Loaded =>
    \A c \in 1..Len(topology.clusters) :
      LET cluster == topology.clusters[c]
          row == DeviceNodesOf(cluster)
          N == Len(ResolvedIds(cluster))
      IN cluster.id \in expandedClusters =>
           /\ Len(row) = N
           /\ \A i \in 1..N :
                /\ 2 * row[i].position.x
                     = 2 * cluster.position.x - (N - 1) * 160 + 2 * (i - 1) * 160
                /\ row[i].position.y = cluster.position.y
                /\ row[i].position.x + row[N + 1 - i].position.x
                     = 2 * cluster.position.x
           /\ \A i \in 1..(N - 1) :
                row[i + 1].position.x - row[i].position.x = 160

\* an expanded cluster whose devices form a row of at least two nodes, the
\* first of them left of cluster.x
RowWitness ==
  /\ Loaded
  /\ \E c \in 1..Len(topology.clusters) :
       LET cluster == topology.clusters[c]
           row == DeviceNodesOf(cluster)
       IN /\ cluster.id \in expandedClusters
          /\ Len(row) = Len(cluster.device_ids)
          /\ Len(row) >= 2
          /\ row[1].position.x < cluster.position.x

\* C21: the edge of an external link targets "external-" + target label;
\* its source is the source device when that device's cluster is expanded,
\* the cluster's id when it is collapsed, and "external-" + source label
\* when the source carries no device but a label.
LinkEdgeEndpoints ==
  Loaded =>
    \A k \in 1..Len(topology.external_links) :
      LET link == topology.external_links[k]
      IN /\ \A i \in EdgesOfLink(link) :
              edges[i].target = "external-" \o link.target.label
         /\ HasOwner(link.source) =>
              \E i \in EdgesOfLink(link) :
                edges[i].source = Rendered(link.source)
         /\ ("device" \notin DOMAIN link.source /\ "label" \in DOMAIN link.source) =>
              \E i \in EdgesOfLink(link) :
                edges[i].source = "external-" \o link.source.label

\* a link from a device that also carries a label, drawn from the device
\* of an expanded cluster, next to a link from a label alone
LinkSourcesWitness ==
  /\ Loaded
  /\ Len(topology.external_links) = 2
  /\ topology.external_links[1].source = [device |-> "d1", label |-> "SiteB"]
  /\ topology.external_links[2].source = [label |-> "SiteB"]
  /\ "A" \in expandedClusters
  /\ Len(edges) = 3
  /\ edges[2].source = "d1"
  /\ edges[3].source = "external-SiteB"

\* C22: an external node exists for a label only when a link targets the
\* label or a link's source carries the label and no device.
SourceLabelNodeOnlyWithoutDevice ==
  Loaded =>
    \A l \in Labels :
      (\E i \in 1..Len(nodes) : nodes[i].id = "external-" \o l) =>
        \E k \in 1..Len(topology.external_links) :
          LET link == topology.external_links[k]
          IN \/ link.target.label = l
             \/ /\ "label" \in DOMAIN link.source
                /\ link.source.label = l
                /\ "device" \notin DOMAIN link.source

\* the links that reference a label, as target or as source label
ReferencesLabel(link, l) ==
  \/ link.target.label = l
  \/ "label" \in DOMAIN link.source /\ link.source.label = l

\* the position in the list of the first link that references a label
FirstReference(l) ==
  CHOOSE k \in 1..Len(topology.external_links) :
    /\ ReferencesLabel(topology.external_links[k], l)
    /\ \A j \in 1..(k - 1) : ~ReferencesLabel(topology.external_links[j], l)

ExternalNodeOf(l) ==
  CHOOSE i \in 1..Len(nodes) : nodes[i].id = "external-" \o l

\* C23 as stated: the external node of a label is at x = 50 and
\* y = 100 + index*120, index (from 0) being that of the first link that
\* references the label, as target or as source.
ExternalPositionByFirstLink ==
  Loaded =>
    \A l \in ReferencedLabels :
      /\ \E i \in 1..Len(nodes) : nodes[i].id = "external-" \o l
      /\ nodes[ExternalNodeOf(l)].position
           = [x |-> 50, y |-> 100 + (FirstReference(l) - 1) * 120]

\* C23 as amended: the external node of a label is placed by the first
\* link that references the label: at y = 100 + index*120 when that link
\* targets the label, at y = 100 + (index+1)*120 when it names the label
\* as its source only; x = 50; no later link moves it.
ExternalPositionByFirstReference ==
  Loaded =>
    \A l \in ReferencedLabels :
      /\ \E i \in 1..Len(nodes) : nodes[i].id = "external-" \o l
      /\ nodes[ExternalNodeOf(l)].position
           = [x |-> 50,
              y |-> IF topology.external_links[FirstReference(l)].target.label = l
                    THEN 100 + (FirstReference(l) - 1) * 120
                    ELSE 100 + FirstReference(l) * 120]

\* SiteB is the source label of the first link and the target of the
\* second: its node stays where the first link put it
SourceThenTargetWitness ==
  /\ Loaded
  /\ Len(topology.external_links) = 2
  /\ topology.external_links[1].source = [label |-> "SiteB"]
  /\ topology.external_links[1].target.label = "Internet"
  /\ topology.external_links[2].target.label = "SiteB"
  /\ \E i \in 1..Len(nodes) :
       /\ nodes[i].id = "external-SiteB"
       /\ nodes[i].position = [x |-> 50, y |-> 220]

\* C24: a double click on a cluster node expands its cluster, one on a
\* device node collapses the cluster that emitted it, one on an external
\* node toggles nothing; the expanded set changes in no other way, and a
\* click leaves it alone and selects the clicked node only when that node
\* is a device node.
ClicksAndDoubleClicks ==
  [][/\ \A i \in 1..Len(nodes) :
          /\ nodes[i].type = "cluster" =>
               /\ doubleClickTarget(nodes[i]) = nodes[i].id
               /\ nodes[i].id \notin expandedClusters
          /\ nodes[i].type = "device" =>
               /\ doubleClickTarget(nodes[i]) = nodes[i].data.clusterId
               /\ nodes[i].data.clusterId \in expandedClusters
          /\ nodes[i].type = "external" => doubleClickTarget(nodes[i]) = Null
     /\ expandedClusters' # expandedClusters =>
          /\ selected' = selected
          /\ \E i \in 1..Len(nodes) :
               \/ /\ nodes[i].type = "cluster"
                  /\ expandedClusters' = expandedClusters \cup {nodes[i].id}
               \/ /\ nodes[i].type = "device"
                  /\ expandedClusters'
                       = expandedClusters \ {nodes[i].data.clusterId}
     /\ selected' # selected =>
          /\ expandedClusters' = expandedClusters
          /\ \E i \in 1..Len(nodes) :
               nodes[i].type = "device" /\ selected' = nodes[i].id]_vars

\* a cluster was expanded from its cluster node and collapsed from a
\* device node, a device was selected, and an external node is rendered
ClickedAndToggledWitness ==
  /\ Loaded
  /\ roundTrip.returned
  /\ toggledOdd = {}
  /\ selected # Null
  /\ \E i \in 1..Len(nodes) : nodes[i].type = "external"

\* the ids of the rendered nodes
NodeIds == {nodes[i].id : i \in 1..Len(nodes)}

\* C25: the source and the target of every edge are ids of nodes of the
\* node list.
EdgesJoinRenderedNodes ==
  Loaded =>
    \A i \in 1..Len(edges) :
      edges[i].source \in NodeIds /\ edges[i].target \in NodeIds

\* C26: for each cluster of the snapshot the node list holds a node whose
\* double click toggles that cluster.
EveryClusterHasHandle ==
  (Loaded /\ ~crashed) =>
    \A c \in 1..Len(topology.clusters) :
      \E i \in 1..Len(nodes) :
        doubleClickTarget(nodes[i]) = topology.clusters[c].id

\* C27: no two external nodes are at the same position.
DistinctExternalPositions ==
  \A i, j \in 1..Len(nodes) :
    (/\ nodes[i].type = "external"
     /\ nodes[j].type = "external"
     /\ nodes[i].position = nodes[j].position) => i = j

\* C28: no two edges have the same id.
UniqueEdgeIds ==
  \A i, j \in 1..Len(edges) : edges[i].id = edges[j].id => i = j

\* the id an end of an edge had before cluster c was expanded
Collapsed(id, c) ==
  IF id \in DOMAIN topology.devices
       /\ "cluster_id" \in DOMAIN topology.devices[id]
       /\ topology.devices[id].cluster_id = c
  THEN c ELSE id

\* C29: with the topology unchanged, the expansion of a collapsed cluster
\* does not lower the number of edges: every connection-derived edge of
\* before has an edge of after that joins the same ends, the devices of
\* the expanded cluster standing for the cluster, and the number of
\* external-link edges is the same.
ExpansionKeepsEdges ==
  (Loaded /\ roundTrip.cluster # Null /\ ~roundTrip.returned) =>
    LET before == roundTrip.edges
        c == roundTrip.cluster
    IN /\ Len(edges) >= Len(before)
       /\ \A b \in 1..Len(before) :
            before[b].target \notin ExternalIds =>
              \E i \in ConnectionEdges :
                {Collapsed(edges[i].source, c), Collapsed(edges[i].target, c)}
                  = {before[b].source, before[b].target}
       /\ Cardinality(LinkEdges)
            = Cardinality({b \in 1..Len(before) :
                             before[b].target \in ExternalIds})

\* an expansion that turned one edge between two clusters into two edges,
\* with an external-link edge next to them
ExpansionAddsEdgeWitness ==
  /\ Loaded
  /\ roundTrip.cluster # Null
  /\ ~roundTrip.returned
  /\ Cardinality(ConnectionEdges) = 2
  /\ Cardinality({b \in 1..Len(roundTrip.edges) :
                    roundTrip.edges[b].target \notin ExternalIds}) = 1
  /\ Cardinality(LinkEdges) = 1

====
